---- MODULE Spec2Model ----
(***************************************************************************)
(* build_ghostscript.py: the pipeline that downloads, configures, builds,  *)
(* installs, relocates and smoke-tests a Ghostscript binary, with its      *)
(* download cache, its optional RAM disk and its temporary directory.      *)
(* One action per stage of build_ghostscript() and of the __main__ block;  *)
(* the outcome of every external command, download and file operation is   *)
(* an input chosen with \E.                                                *)
(***************************************************************************)
EXTENDS Integers, Sequences, FiniteSets, TLC

\* ---------------------------------------------------------------- bounds
\* largest ordinary CPU count os.cpu_count() reports (0 stands for None)
MaxCpu == 11
\* number of entries the archive extraction adds to the working directory
MaxEntries == 2

\* ------------------------------------------------------ program constants
JobCap == 12
JobHeadroom == 2
DefaultCpu == 4

required_tools == <<"gcc", "make", "autoconf">>

configure_attempts == <<"configure_optimized", "configure_minimal">>

test_files ==
    {"test.ps", "test_original.pdf", "test_prepress.pdf", "test_printer.pdf",
     "test_ebook.pdf", "test_screen.pdf", "test_max_compression.pdf",
     "test_info.pdf"}

\* an entry of the working directory: is it a directory, and does its name
\* start with "ghostscript"
Entry == [is_dir : BOOLEAN, gs_prefix : BOOLEAN]

\* the downloaded archive temp_path / "ghostscript-10.05.1.tar.gz"
tar_entry == [is_dir |-> FALSE, gs_prefix |-> TRUE]

VARIABLES
    pc,                 \* the stage about to run
    exc,                \* TRUE while an exception is propagating
    fatal_stage,        \* the stage that raised it ("none" when none did)
    exit_code,          \* -1 while running, then the process exit status
    no_cleanup,         \* args.no_cleanup
    no_ram_disk,        \* args.no_ram_disk
    cleanup,            \* build_ghostscript's cleanup parameter
    use_ram_disk,       \* build_ghostscript's use_ram_disk parameter
    platform,           \* sys.platform
    missing,            \* check_dependencies' missing list (as a set)
    provision,          \* "not_run", "ok" or "failed": how RAM disk setup went
    ram_disk_path,      \* "None" or "/tmp/gs_ramdisk"
    ram_device,         \* "None" or the device hdiutil printed
    work_base,          \* "unset", "ramdisk" or "tmp"
    attached,           \* a RAM device is attached (hdiutil attach succeeded)
    mounted,            \* the RAM volume is mounted on /tmp/gs_ramdisk
    build_dir_exists,   \* ./build
    output_dir_exists,  \* ./bin
    temp_created,       \* the TemporaryDirectory was ever created
    temp_exists,        \* the TemporaryDirectory exists now
    cache_hit,          \* "none", "hit" or "miss": cache_path.exists() at fetch
    cache_exists,       \* the cache entry of gs_url exists
    download_ok,        \* "none", "ok" or "failed"
    listing,            \* temp_path.iterdir(), in iteration order
    gs_source_dir,      \* index into listing, 0 for None
    configure_rcs,      \* the outcome of each configure attempt, in order
    configure_success,
    reported_cpu,       \* os.cpu_count(), 0 for None, -1 before the compile
    make_jobs,          \* N of make -jN, 0 before the compile
    install_rc,         \* "none", "zero" or "nonzero"
    gs_binary_exists,   \* ./build/bin/gs
    binary_found,       \* "none", "yes" or "no": gs_binary.exists() at relocate
    final_binary_exists,\* ./bin/ghostscript
    smoke_rc,           \* "none", "zero", "nonzero" or "oserror"
    cwd_files,          \* the files of the current directory
    cmds                \* every external effect, in the order it happened

vars ==
    <<pc, exc, fatal_stage, exit_code, no_cleanup, no_ram_disk, cleanup,
      use_ram_disk, platform, missing, provision, ram_disk_path, ram_device,
      work_base, attached, mounted, build_dir_exists, output_dir_exists,
      temp_created, temp_exists, cache_hit, cache_exists, download_ok,
      listing, gs_source_dir, configure_rcs, configure_success, reported_cpu,
      make_jobs, install_rc, gs_binary_exists, binary_found,
      final_binary_exists, smoke_rc, cwd_files, cmds>>

\* ---------------------------------------------------------------- helpers
Range(s) == {s[i] : i \in 1..Len(s)}

Has(c) == c \in Range(cmds)

Positions(c) == {i \in 1..Len(cmds) : cmds[i] = c}

Count(c) == Cardinality(Positions(c))

Min(a, b) == IF a <= b THEN a ELSE b

\* what the current directory holds when the run starts: two of the known
\* test files (the other six are absent) and a file that is none of them
CwdChoices ==
    {{"test.ps", "test_info.pdf", "notes.txt"}}

Init ==
    /\ pc = "main"
    /\ exc = FALSE
    /\ fatal_stage = "none"
    /\ exit_code = -1
    /\ no_cleanup \in BOOLEAN
    /\ no_ram_disk \in BOOLEAN
    /\ cleanup = FALSE
    /\ use_ram_disk = FALSE
    /\ platform \in {"darwin", "linux"}
    /\ missing = {}
    /\ provision = "not_run"
    /\ ram_disk_path = "None"
    /\ ram_device = "None"
    /\ work_base = "unset"
    /\ attached = FALSE
    /\ mounted = FALSE
    /\ build_dir_exists = FALSE
    /\ output_dir_exists = FALSE
    /\ temp_created = FALSE
    /\ temp_exists = FALSE
    /\ cache_hit = "none"
    /\ cache_exists \in BOOLEAN
    /\ download_ok = "none"
    /\ listing = <<>>
    /\ gs_source_dir = 0
    /\ configure_rcs = <<>>
    /\ configure_success = FALSE
    /\ reported_cpu = -1
    /\ make_jobs = 0
    /\ install_rc = "none"
    /\ gs_binary_exists = FALSE
    /\ binary_found = "none"
    /\ final_binary_exists = FALSE
    /\ smoke_rc = "none"
    /\ cwd_files \in CwdChoices
    /\ cmds = <<>>


\* ------------------------------------------------- control-flow structure
argv == <<no_cleanup, no_ram_disk, platform>>
params == <<cleanup, use_ram_disk>>
ram == <<provision, ram_disk_path, ram_device, work_base, attached, mounted>>
dirs == <<build_dir_exists, output_dir_exists>>
temp == <<temp_created, temp_exists>>
fetchv == <<cache_hit, cache_exists, download_ok>>
srcv == <<listing, gs_source_dir>>
confv == <<configure_rcs, configure_success>>
compv == <<reported_cpu, make_jobs>>
instv == <<install_rc, gs_binary_exists, binary_found>>
finv == <<final_binary_exists, smoke_rc, cwd_files>>

\* what an external command can do: exit zero, exit non-zero, or fail to
\* start at all (subprocess raises OSError)
Outcomes == {"zero", "nonzero", "oserror"}

\* the two blocks nested the other way round: finally before the with-exit
FinallyFirst == <<"finally", "with_exit", "leave">>

\* `with TemporaryDirectory` is nested inside `try ... finally`: leaving the
\* body runs the with-exit, then the finally clause, then leaves the function
ExitChain == <<"with_exit", "finally", "leave">>

After(stage) ==
    LET i == CHOOSE k \in 1..Len(ExitChain) : ExitChain[k] = stage
    IN  ExitChain[i + 1]

Goto(stage) ==
    /\ pc' = stage
    /\ UNCHANGED <<exc, fatal_stage, exit_code>>

\* an exception raised by `stage` unwinds to `handler`
Raise(stage, handler) ==
    /\ pc' = handler
    /\ exc' = TRUE
    /\ fatal_stage' = stage
    /\ UNCHANGED exit_code

\* run_command_with_progress raises on a command that cannot start, and on
\* a non-zero exit when check is set; otherwise it returns the result
CommandRaises(check, outcome) ==
    \/ outcome = "oserror"
    \/ outcome = "nonzero" /\ check

\* ------------------------------------------------------------- __main__
ParseArgs ==
    /\ pc = "main"
    /\ cleanup' = ~no_cleanup
    /\ use_ram_disk' = ~no_ram_disk
    /\ Goto("check_dependencies")
    /\ UNCHANGED <<argv, missing, ram, dirs, temp, fetchv, srcv, confv, compv,
                   instv, finv, cmds>>

\* --------------------------------------------------- check_dependencies
WhichCmd == [gcc |-> "which_gcc", make |-> "which_make",
             autoconf |-> "which_autoconf"]

\* `if missing` written as "every tool is missing"
DepsFatalOnlyIfAllMissing(m) == m = Range(required_tools)

DepsFatal(m) == m # {}

CheckDependencies ==
    /\ pc = "check_dependencies"
    /\ \/ \E found \in SUBSET Range(required_tools) :
            LET m == {required_tools[i] : i \in
                        {k \in 1..Len(required_tools) :
                            required_tools[k] \notin found}}
            IN  /\ missing' = m
                /\ cmds' = cmds \o [i \in 1..Len(required_tools) |->
                                        WhichCmd[required_tools[i]]]
                /\ IF DepsFatal(m)
                   THEN \* sys.exit(1): SystemExit is not an Exception
                        /\ pc' = "exited"
                        /\ exit_code' = 1
                        /\ fatal_stage' = "check_dependencies"
                        /\ UNCHANGED exc
                   ELSE Goto("setup_ram_disk")
       \/ \* `which` itself cannot be started: the OSError is not caught
          /\ missing' = {}
          /\ cmds' = Append(cmds, WhichCmd[required_tools[1]])
          /\ Raise("check_dependencies", "leave")
    /\ UNCHANGED <<argv, params, ram, dirs, temp, fetchv, srcv, confv, compv,
                   instv, finv>>

\* -------------------------------------------------------- setup_ram_disk
RamOutcome == [attach : BOOLEAN, newfs : BOOLEAN, mkdir : BOOLEAN,
               mount : BOOLEAN]

\* ret = "None": the function falls off its end and returns a bare None;
\* ret = "tuple": it returns a pair (path, device), possibly (None, None)
setup_ram_disk(plat, o) ==
    LET failed(a, c) ==
            [ret |-> "tuple", path |-> "None", device |-> "None",
             attached |-> a, mounted |-> FALSE, cmds |-> c]
    IN  IF plat = "darwin"
        THEN IF ~o.attach
             THEN failed(FALSE, <<"hdiutil_attach">>)
             ELSE IF ~o.newfs
             THEN failed(TRUE, <<"hdiutil_attach", "newfs_hfs">>)
             ELSE IF ~o.mkdir
             THEN failed(TRUE, <<"hdiutil_attach", "newfs_hfs",
                                 "mkdir_ramdisk">>)
             ELSE IF ~o.mount
             THEN failed(TRUE, <<"hdiutil_attach", "newfs_hfs",
                                 "mkdir_ramdisk", "mount">>)
             ELSE [ret |-> "tuple", path |-> "/tmp/gs_ramdisk",
                   device |-> "disk", attached |-> TRUE, mounted |-> TRUE,
                   cmds |-> <<"hdiutil_attach", "newfs_hfs",
                              "mkdir_ramdisk", "mount">>]
        ELSE [ret |-> "None", path |-> "None", device |-> "None",
              attached |-> FALSE, mounted |-> FALSE, cmds |-> <<>>]

WorkBase(path) == IF path # "None" THEN "ramdisk" ELSE "tmp"

SetupRamDisk ==
    /\ pc = "setup_ram_disk"
    /\ IF use_ram_disk
       THEN \E o \in RamOutcome :
              LET r == setup_ram_disk(platform, o)
              IN  /\ attached' = r.attached
                  /\ mounted' = r.mounted
                  /\ cmds' = cmds \o r.cmds
                  /\ IF r.ret = "None"
                     THEN \* unpacking None into two names raises TypeError,
                          \* before the try block is entered
                          /\ provision' = "failed"
                          /\ Raise("setup_ram_disk", "leave")
                          /\ UNCHANGED <<ram_disk_path, ram_device, work_base>>
                     ELSE /\ provision' =
                                IF r.path = "None" THEN "failed" ELSE "ok"
                          /\ ram_disk_path' = r.path
                          /\ ram_device' = r.device
                          /\ work_base' = WorkBase(r.path)
                          /\ Goto("mkdir_build")
       ELSE /\ work_base' = WorkBase(ram_disk_path)
            /\ Goto("mkdir_build")
            /\ UNCHANGED <<provision, ram_disk_path, ram_device, attached,
                           mounted, cmds>>
    /\ UNCHANGED <<argv, params, missing, dirs, temp, fetchv, srcv, confv,
                   compv, instv, finv>>

\* ------------------------------------------- ./build, ./bin, scratch dir
MkdirBuild ==
    /\ pc = "mkdir_build"
    /\ cmds' = Append(cmds, "mkdir_build")
    /\ \E ok \in BOOLEAN :
         IF ok THEN build_dir_exists' = TRUE /\ Goto("mkdir_bin")
               ELSE /\ UNCHANGED build_dir_exists
                    /\ Raise("mkdir_build", "leave")
    /\ UNCHANGED <<argv, params, missing, ram, output_dir_exists, temp,
                   fetchv, srcv, confv, compv, instv, finv>>

MkdirBin ==
    /\ pc = "mkdir_bin"
    /\ cmds' = Append(cmds, "mkdir_bin")
    /\ \E ok \in BOOLEAN :
         IF ok THEN output_dir_exists' = TRUE /\ Goto("mkdtemp")
               ELSE /\ UNCHANGED output_dir_exists
                    /\ Raise("mkdir_bin", "leave")
    /\ UNCHANGED <<argv, params, missing, ram, build_dir_exists, temp,
                   fetchv, srcv, confv, compv, instv, finv>>

\* entering `with tempfile.TemporaryDirectory(dir=work_base)`, inside try
EnterTemp ==
    /\ pc = "mkdtemp"
    /\ cmds' = Append(cmds, "mkdtemp")
    /\ \E ok \in BOOLEAN :
         IF ok THEN /\ temp_created' = TRUE
                    /\ temp_exists' = TRUE
                    /\ Goto("get_cache_path")
               ELSE /\ UNCHANGED temp
                    /\ Raise("mkdtemp", "finally")
    /\ UNCHANGED <<argv, params, missing, ram, dirs, fetchv, srcv, confv,
                   compv, instv, finv>>


\* ----------------------------------------------------------------- fetch
\* get_cache_path creates the cache directory before naming the entry
GetCachePath ==
    /\ pc = "get_cache_path"
    /\ cmds' = Append(cmds, "cache_mkdir")
    /\ \E ok \in BOOLEAN :
         IF ok THEN Goto("fetch")
               ELSE Raise("get_cache_path", ExitChain[1])
    /\ UNCHANGED <<argv, params, missing, ram, dirs, temp, fetchv, srcv,
                   confv, compv, instv, finv>>

\* the existence test lost: the cache is never used
AlwaysDownload(entry_exists) == FALSE

\* `if cache_path.exists()`: the cached archive is used when it is there
UseCache(entry_exists) == entry_exists

Fetch ==
    /\ pc = "fetch"
    /\ cache_hit' = IF cache_exists THEN "hit" ELSE "miss"
    /\ IF UseCache(cache_exists)
       THEN /\ cmds' = Append(cmds, "copy_from_cache")
            /\ UNCHANGED <<cache_exists, download_ok>>
            /\ \E ok \in BOOLEAN :
                 IF ok THEN Goto("extract")
                       ELSE Raise("fetch", ExitChain[1])
       ELSE /\ \/ \* urlretrieve raises: nothing is copied into the cache
                  /\ download_ok' = "failed"
                  /\ cmds' = Append(cmds, "download")
                  /\ UNCHANGED cache_exists
                  /\ Raise("fetch", ExitChain[1])
               \/ \* downloaded, then copied into the cache
                  /\ download_ok' = "ok"
                  /\ cmds' = cmds \o <<"download", "cache_write">>
                  /\ \E ok \in BOOLEAN :
                       IF ok THEN /\ cache_exists' = TRUE
                                  /\ Goto("extract")
                             ELSE \* a failed copy may leave a partial entry
                                  /\ cache_exists' \in BOOLEAN
                                  /\ Raise("fetch", ExitChain[1])
    /\ UNCHANGED <<argv, params, missing, ram, dirs, temp, srcv, confv,
                   compv, instv, finv>>

\* --------------------------------------------------------------- extract
\* what iterdir() can yield after a successful extraction: the archive
\* itself and up to MaxEntries extracted entries, in any order
Listings ==
    {l \in UNION {[1..n -> Entry] : n \in 1..(MaxEntries + 1)} :
        Cardinality({i \in 1..Len(l) : l[i] = tar_entry}) >= 1}

Extract ==
    /\ pc = "extract"
    /\ cmds' = Append(cmds, "extract")
    /\ \/ \E l \in Listings :
            /\ listing' = l
            /\ Goto("locate_source")
       \/ /\ UNCHANGED listing
          /\ Raise("extract", ExitChain[1])
    /\ UNCHANGED <<argv, params, missing, ram, dirs, temp, fetchv,
                   gs_source_dir, confv, compv, instv, finv>>

\* --------------------------------------------------------- locate_source
\* the match without its is_dir() half
IsSourceDirByNameOnly(e) == e.gs_prefix

IsSourceDir(e) == e.is_dir /\ e.gs_prefix

\* the loop with `break`: the first matching entry, 0 when there is none
FindSource(l) ==
    LET m == {i \in 1..Len(l) : IsSourceDir(l[i])}
    IN  IF m = {} THEN 0 ELSE CHOOSE i \in m : \A j \in m : i <= j

LocateSource ==
    /\ pc = "locate_source"
    /\ gs_source_dir' = FindSource(listing)
    /\ IF gs_source_dir' = 0
       THEN Raise("locate_source", ExitChain[1])
       ELSE Goto("configure")
    /\ UNCHANGED <<argv, params, missing, ram, dirs, temp, fetchv, listing,
                   confv, compv, instv, finv, cmds>>

\* ------------------------------------------------------------- configure
\* the return code never looked at
ConfigureOkAlways(rc) == TRUE

\* `if result.returncode == 0`
ConfigureOk(rc) == rc = "zero"

\* one iteration of the loop over configure_attempts
Configure ==
    /\ pc = "configure"
    /\ LET i == Len(configure_rcs) + 1
       IN  \E rc \in Outcomes :
             /\ configure_rcs' = Append(configure_rcs, rc)
             /\ cmds' = Append(cmds, configure_attempts[i])
             /\ IF CommandRaises(FALSE, rc)
                THEN /\ UNCHANGED configure_success
                     /\ Raise("configure", ExitChain[1])
                ELSE IF ConfigureOk(rc)
                THEN /\ configure_success' = TRUE
                     /\ Goto("configure_check")
                ELSE /\ UNCHANGED configure_success
                     /\ Goto(IF i < Len(configure_attempts)
                             THEN "configure" ELSE "configure_check")
    /\ UNCHANGED <<argv, params, missing, ram, dirs, temp, fetchv, srcv,
                   compv, instv, finv>>

\* `if not configure_success: raise`
ConfigureCheck ==
    /\ pc = "configure_check"
    /\ IF configure_success
       THEN Goto("compile")
       ELSE Raise("configure", ExitChain[1])
    /\ UNCHANGED <<argv, params, missing, ram, dirs, temp, fetchv, srcv,
                   confv, compv, instv, finv, cmds>>

\* --------------------------------------------------------------- compile
\* the counts os.cpu_count() can report: None (written 0), small machines,
\* the counts around the cap, and a 64-core machine
CpuCounts == {0, 1, 4, 64} \cup ((JobCap - JobHeadroom - 1)..MaxCpu)

\* `os.cpu_count() or 4`
CpuCountOrDefault(c) == IF c = 0 THEN DefaultCpu ELSE c

\* the job count without its cap
MakeJobsUncapped(c) == c + JobHeadroom

\* `min(cpu_count + 2, 12)`
MakeJobs(c) == Min(c + JobHeadroom, JobCap)

Compile ==
    /\ pc = "compile"
    /\ \E c \in CpuCounts, rc \in Outcomes :
         /\ reported_cpu' = c
         /\ make_jobs' = MakeJobs(CpuCountOrDefault(c))
         /\ cmds' = Append(cmds, "make_jobs")
         /\ IF CommandRaises(TRUE, rc)
            THEN Raise("compile", ExitChain[1])
            ELSE Goto("install")
    /\ UNCHANGED <<argv, params, missing, ram, dirs, temp, fetchv, srcv,
                   confv, instv, finv>>

\* --------------------------------------------------------------- install
Install ==
    /\ pc = "install"
    /\ cmds' = Append(cmds, "make_install")
    /\ \E rc \in Outcomes :
         IF CommandRaises(TRUE, rc)
         THEN /\ install_rc' = IF rc = "zero" THEN "zero" ELSE "nonzero"
              /\ UNCHANGED gs_binary_exists
              /\ Raise("install", ExitChain[1])
         ELSE /\ install_rc' = "zero"
              \* a zero exit does not prove that ./build/bin/gs was written
              /\ gs_binary_exists' \in BOOLEAN
              /\ Goto("relocate_binary")
    /\ UNCHANGED <<argv, params, missing, ram, dirs, temp, fetchv, srcv,
                   confv, compv, binary_found, finv>>

\* ------------------------------------------------------- relocate_binary
\* the copy done without testing that the binary is there
CopyWithoutLooking(binary_exists) == TRUE

\* `if gs_binary.exists()`
BinaryFound(binary_exists) == binary_exists

Relocate ==
    /\ pc = "relocate_binary"
    /\ binary_found' = IF gs_binary_exists THEN "yes" ELSE "no"
    /\ IF BinaryFound(gs_binary_exists)
       THEN \E ok \in BOOLEAN :
              IF ok
              THEN /\ cmds' = cmds \o <<"copy_binary", "chmod_binary">>
                   /\ final_binary_exists' = TRUE
                   /\ Goto("smoke_test")
              ELSE /\ cmds' = Append(cmds, "copy_binary")
                   /\ UNCHANGED final_binary_exists
                   /\ Raise("relocate_binary", ExitChain[1])
       ELSE /\ UNCHANGED <<final_binary_exists, cmds>>
            /\ Raise("relocate_binary", ExitChain[1])
    /\ UNCHANGED <<argv, params, missing, ram, dirs, temp, fetchv, srcv,
                   confv, compv, install_rc, gs_binary_exists, smoke_rc,
                   cwd_files>>

\* ------------------------------------------------------------ smoke_test
\* the cleanup hoisted out of the `returncode == 0` branch
CleanupWhateverTheTest(rc, requested) == requested

\* `if result.returncode == 0:` and, inside it, `if cleanup:`
CleanupRuns(rc, requested) == rc = "zero" /\ requested

SmokeTest ==
    /\ pc = "smoke_test"
    /\ cmds' = Append(cmds, "smoke_test")
    /\ \E rc \in Outcomes :
         /\ smoke_rc' = rc
         /\ IF CommandRaises(FALSE, rc)
            THEN Raise("smoke_test", ExitChain[1])
            ELSE Goto(IF CleanupRuns(rc, cleanup)
                      THEN "cleanup" ELSE ExitChain[1])
    /\ UNCHANGED <<argv, params, missing, ram, dirs, temp, fetchv, srcv,
                   confv, compv, instv, final_binary_exists, cwd_files>>

\* --------------------------------------------------------------- cleanup
Cleanup ==
    /\ pc = "cleanup"
    /\ \/ \* rmtree(./build) when it exists, then the known test files
          LET cleaned_files == cwd_files \cap test_files
          IN  /\ build_dir_exists' = FALSE
              /\ gs_binary_exists' =
                    IF build_dir_exists THEN FALSE ELSE gs_binary_exists
              /\ cwd_files' = cwd_files \ cleaned_files
              /\ cmds' = cmds
                    \o (IF build_dir_exists THEN <<"rmtree_build">> ELSE <<>>)
                    \o (IF cleaned_files # {} THEN <<"unlink_test_files">>
                        ELSE <<>>)
              /\ Goto(ExitChain[1])
       \/ \* rmtree fails
          /\ build_dir_exists
          /\ cmds' = Append(cmds, "rmtree_build")
          /\ UNCHANGED <<build_dir_exists, gs_binary_exists, cwd_files>>
          /\ Raise("cleanup", ExitChain[1])
    /\ UNCHANGED <<argv, params, missing, ram, output_dir_exists, temp,
                   fetchv, srcv, confv, compv, install_rc, binary_found,
                   final_binary_exists, smoke_rc>>

\* --------------------------------------------- release of scratch space
\* leaving the `with` block removes the temporary directory
WithExit ==
    /\ pc = "with_exit"
    /\ IF temp_exists
       THEN /\ temp_exists' = FALSE
            /\ cmds' = Append(cmds, "rm_temp")
       ELSE UNCHANGED <<temp_exists, cmds>>
    /\ pc' = After("with_exit")
    /\ UNCHANGED <<exc, fatal_stage, exit_code, argv, params, missing, ram,
                   dirs, temp_created, fetchv, srcv, confv, compv, instv,
                   finv>>

\* cleanup_ram_disk: umount and hdiutil detach run with check=False, so
\* their exit status is ignored; an OSError is caught and logged
cleanup_ram_disk(path, device, um, de) ==
    IF path # "None" /\ device # "None"
    THEN [cmds |-> IF um = "oserror" THEN <<"umount">>
                   ELSE <<"umount", "hdiutil_detach">>,
          unmounted |-> um = "zero" \/ (um # "oserror" /\ de = "zero"),
          detached |-> um # "oserror" /\ de = "zero"]
    ELSE [cmds |-> <<>>, unmounted |-> FALSE, detached |-> FALSE]

\* the finally clause
Finally ==
    /\ pc = "finally"
    /\ IF ram_disk_path # "None" /\ ram_device # "None"
       THEN \E um \in Outcomes, de \in Outcomes :
              LET r == cleanup_ram_disk(ram_disk_path, ram_device, um, de)
              IN  /\ cmds' = cmds \o r.cmds
                  /\ mounted' = (mounted /\ ~r.unmounted)
                  /\ attached' = (attached /\ ~r.detached)
       ELSE UNCHANGED <<cmds, mounted, attached>>
    /\ pc' = After("finally")
    /\ UNCHANGED <<exc, fatal_stage, exit_code, argv, params, missing,
                   provision, ram_disk_path, ram_device, work_base, dirs,
                   temp, fetchv, srcv, confv, compv, instv, finv>>

\* ------------------------------------------------- back in __main__
\* build_ghostscript returned: "Build completed successfully!", status 0
MainReturn ==
    /\ pc = "leave"
    /\ ~exc
    /\ pc' = "exited"
    /\ exit_code' = 0
    /\ UNCHANGED <<exc, fatal_stage, argv, params, missing, ram, dirs, temp,
                   fetchv, srcv, confv, compv, instv, finv, cmds>>

\* `except Exception`: "Build failed", sys.exit(1)
MainExcept ==
    /\ pc = "leave"
    /\ exc
    /\ pc' = "exited"
    /\ exit_code' = 1
    /\ UNCHANGED <<exc, fatal_stage, argv, params, missing, ram, dirs, temp,
                   fetchv, srcv, confv, compv, instv, finv, cmds>>

Next ==
    \/ ParseArgs
    \/ CheckDependencies
    \/ SetupRamDisk
    \/ MkdirBuild
    \/ MkdirBin
    \/ EnterTemp
    \/ GetCachePath
    \/ Fetch
    \/ Extract
    \/ LocateSource
    \/ Configure
    \/ ConfigureCheck
    \/ Compile
    \/ Install
    \/ Relocate
    \/ SmokeTest
    \/ Cleanup
    \/ WithExit
    \/ Finally
    \/ MainReturn
    \/ MainExcept

Spec == Init /\ [][Next]_vars


\* ===================================================== the claims, checked
Exited == pc = "exited"

WhichProbes == {WhichCmd[required_tools[i]] : i \in 1..Len(required_tools)}

ConfigureCmds == Range(configure_attempts)

\* every position of cmds holding a command of set S
PositionsIn(S) == {i \in 1..Len(cmds) : cmds[i] \in S}

\* C1: when the run has ended, in success or after a fatal failure at any
\* stage, the temporary directory no longer exists and no RAM volume that
\* was attached during the run is still attached or mounted.
C1_ScratchAlwaysReleased ==
    Exited => (~temp_exists /\ ~attached /\ ~mounted)

\* C2: when the RAM disk is requested and its provisioning fails, whatever
\* the reason, the work base is the system temporary directory and the
\* failure is not fatal: the run goes on to the later stages.
C2_ProvisionFailureFallsBack ==
    (use_ram_disk /\ provision = "failed")
        => (work_base = "tmp" /\ fatal_stage # "setup_ram_disk")

\* C3: the configure option sets are tried in list order, set k only after
\* every earlier set exited non-zero, stopping at the first zero exit; when
\* the first fails and the second succeeds the compile is run; when all fail
\* the run is fatal and neither compile nor install is ever run.
C3_ConfigureFallback ==
    /\ Len(configure_rcs) <= Len(configure_attempts)
    /\ \A k \in 1..Len(configure_rcs) :
         /\ Has(configure_attempts[k])
         /\ k < Len(configure_rcs) => configure_rcs[k] = "nonzero"
    /\ \A k \in 1..Len(configure_attempts) :
         Count(configure_attempts[k]) = IF k <= Len(configure_rcs) THEN 1 ELSE 0
    /\ (Has("make_jobs") \/ Has("make_install"))
         => (/\ configure_rcs # <<>>
             /\ configure_rcs[Len(configure_rcs)] = "zero"
             /\ \A i \in PositionsIn(ConfigureCmds),
                   j \in PositionsIn({"make_jobs", "make_install"}) : i < j)
    /\ (Exited /\ configure_rcs = <<"nonzero", "zero">>) => Has("make_jobs")
    /\ (Exited /\ configure_rcs = <<"nonzero", "nonzero">>)
         => (/\ exit_code = 1
             /\ fatal_stage = "configure"
             /\ ~Has("make_jobs")
             /\ ~Has("make_install"))

C3_Witness ==
    /\ Exited
    /\ configure_rcs = <<"nonzero", "zero">>
    /\ Has("make_jobs")
    /\ \E i \in Positions("make_jobs") : cmds[i - 1] = "configure_minimal"

\* C4: when the smoke test exits non-zero the run still ends with exit code
\* 0, and the cleanup stage is skipped whatever the cleanup flag says:
\* ./build stays and no known test file is removed; cleanup work is only
\* ever done after a smoke test that exited zero.
C4_SmokeFailureIsNotFatal ==
    /\ (Exited /\ smoke_rc = "nonzero") => exit_code = 0
    /\ smoke_rc = "nonzero"
         => (/\ pc # "cleanup"
             /\ build_dir_exists
             /\ cwd_files \in CwdChoices
             /\ ~Has("rmtree_build")
             /\ ~Has("unlink_test_files"))
    /\ (pc = "cleanup" \/ Has("rmtree_build") \/ Has("unlink_test_files"))
         => (smoke_rc = "zero" /\ cleanup)

C4_Witness ==
    /\ Exited
    /\ smoke_rc = "nonzero"
    /\ cleanup
    /\ cwd_files \cap test_files # {}
    /\ exit_code = 0

\* C5: a cache hit never downloads and never writes the cache entry; a
\* cache miss downloads exactly once and then, only when the download
\* succeeded, writes the cache entry exactly once; a failed download leaves
\* the cache entry absent.
C5_CacheHitMiss ==
    /\ cache_hit = "none"
         => (Count("download") = 0 /\ Count("cache_write") = 0)
    /\ cache_hit = "hit"
         => (Count("download") = 0 /\ Count("cache_write") = 0)
    /\ cache_hit = "miss"
         => (/\ Count("download") = 1
             /\ Count("cache_write") = IF download_ok = "ok" THEN 1 ELSE 0
             /\ \A i \in Positions("download"), j \in Positions("cache_write") :
                   i < j)
    /\ download_ok = "failed" => ~cache_exists

C5_Witness ==
    /\ Exited
    /\ cache_hit = "miss"
    /\ download_ok = "ok"
    /\ Count("download") = 1
    /\ Count("cache_write") = 1
    /\ cache_exists

\* C6: when make install exited zero and ./build/bin/gs is absent, the run
\* is fatal (exit code 1) and does no copy to ./bin/ghostscript, no smoke
\* test and no cleanup.
C6_MissingBinaryIsFatal ==
    (install_rc = "zero" /\ binary_found = "no")
        => (/\ exc
            /\ fatal_stage = "relocate_binary"
            /\ pc \notin {"smoke_test", "cleanup"}
            /\ ~final_binary_exists
            /\ ~Has("copy_binary")
            /\ ~Has("smoke_test")
            /\ ~Has("rmtree_build")
            /\ ~Has("unlink_test_files")
            /\ Exited => exit_code = 1)

C6_Witness ==
    /\ Exited
    /\ install_rc = "zero"
    /\ binary_found = "no"
    /\ exit_code = 1

\* C7: for every reported CPU count c (None counting as 4) the parallelism
\* passed to make is min(c + 2, 12): never above 12, 12 for 64 cores, and
\* c + 2 whenever that is at most 12.
C7_ParallelismCapped ==
    reported_cpu >= 0
        => LET c == IF reported_cpu = 0 THEN 4 ELSE reported_cpu
           IN  /\ make_jobs <= 12
               /\ c + 2 <= 12 => make_jobs = c + 2
               /\ c + 2 > 12 => make_jobs = 12
               /\ reported_cpu = 64 => make_jobs = 12
               /\ reported_cpu = 0 => make_jobs = 6

C7_Witness ==
    /\ reported_cpu = 64
    /\ make_jobs = 12
    /\ Has("make_jobs")

\* C8: when a required tool is missing the run ends at once with exit code
\* 1, having run nothing but the `which` probes: no RAM disk, no ./build or
\* ./bin, no cache directory or cache access, no download, no temporary
\* directory.
C8_MissingToolStopsBeforeAnything ==
    missing # {}
        => (/\ Exited
            /\ exit_code = 1
            /\ Range(cmds) \subseteq WhichProbes
            /\ provision = "not_run"
            /\ ~attached
            /\ ~build_dir_exists
            /\ ~output_dir_exists
            /\ ~temp_created
            /\ cache_hit = "none"
            /\ download_ok = "none")

C8_Witness ==
    /\ Exited
    /\ missing = {"autoconf"}
    /\ exit_code = 1

\* C9: after extraction, when no immediate child of the working directory
\* is a directory whose name starts with "ghostscript", locate_source is
\* fatal and no configure, compile or install command is run; otherwise the
\* first such directory in iteration order is the source directory.
C9_LocateSource ==
    LET m == {i \in 1..Len(listing) :
                 listing[i].is_dir /\ listing[i].gs_prefix}
    IN  (listing # <<>> /\ pc # "locate_source")
          => /\ m = {}
                  => (/\ gs_source_dir = 0
                      /\ exc
                      /\ fatal_stage = "locate_source"
                      /\ PositionsIn(ConfigureCmds
                            \cup {"make_jobs", "make_install"}) = {}
                      /\ Exited => exit_code = 1)
             /\ m # {}
                  => (/\ gs_source_dir \in m
                      /\ \A j \in m : gs_source_dir <= j)

C9_Witness ==
    /\ Exited
    /\ Len(listing) = 3
    /\ \A i \in 1..Len(listing) : ~(listing[i].is_dir /\ listing[i].gs_prefix)
    /\ \E i \in 1..Len(listing) : listing[i].is_dir
    /\ fatal_stage = "locate_source"

\* C10 as stated: on release of an accelerated scratch space the RAM volume
\* is unmounted and detached first, and the temporary directory tree is
\* removed after that.
C10_VolumeReleasedBeforeTempRemoved ==
    (provision = "ok" /\ Has("rm_temp"))
        => (/\ Has("umount")
            /\ \A i \in PositionsIn({"umount", "hdiutil_detach"}),
                  j \in Positions("rm_temp") : i < j)

\* C10 as amended: on every way out of the temporary-directory block of an
\* accelerated run the temporary directory tree is removed first; only
\* after that umount is run on the RAM volume, and hdiutil detach after
\* umount.
C10_TempRemovedBeforeVolumeReleased ==
    /\ temp_created
         => \A i \in PositionsIn({"umount", "hdiutil_detach"}) :
               \E j \in Positions("rm_temp") : j < i
    /\ \A i \in Positions("hdiutil_detach") :
         \E j \in Positions("umount") : j < i
    /\ (provision = "ok" /\ temp_created /\ pc \in {"leave", "exited"})
         => (/\ ~temp_exists
             /\ Count("rm_temp") = 1
             /\ Count("umount") = 1
             /\ Count("hdiutil_detach") <= 1)

C10_Witness ==
    /\ Exited
    /\ provision = "ok"
    /\ temp_created
    /\ exc
    /\ cmds[Len(cmds) - 2] = "rm_temp"
    /\ cmds[Len(cmds) - 1] = "umount"
    /\ cmds[Len(cmds)] = "hdiutil_detach"

====
